---- MODULE Spec2Model ----
(***************************************************************************)
(* krkn-operator-data-provider: the GetNodes handler of the gRPC server   *)
(* (server.py), the thread pool that runs it and the lifecycle of serve(). *)
(***************************************************************************)
EXTENDS Bags, FiniteSets, Integers, Sequences, TLC

(***************************************************************************)
(* Bounds of the model.                                                    *)
(***************************************************************************)
\* requests the clients send in the Spec scenario
MaxRequests == 3
\* longest credential string of the SpecDecode scenario
MaxCredLen == 5
\* requests sent beyond the pool size in the SpecPool scenario
Backlog == 1

(***************************************************************************)
(* Program constants.                                                      *)
(***************************************************************************)
\* futures.ThreadPoolExecutor(max_workers=10)
max_workers == 10

\* an unset local: None, or the one value it holds
None == << >>

Some(v) == << v >>

(***************************************************************************)
(* base64.b64decode(request.kubeconfig_base64): the non-validating decoder *)
(* of the standard library.  A string is a sequence of one-character       *)
(* strings, bytes are a sequence of 0..255.                                *)
(***************************************************************************)
B64Chars ==
  << "A","B","C","D","E","F","G","H","I","J","K","L","M","N","O","P",
     "Q","R","S","T","U","V","W","X","Y","Z","a","b","c","d","e","f",
     "g","h","i","j","k","l","m","n","o","p","q","r","s","t","u","v",
     "w","x","y","z","0","1","2","3","4","5","6","7","8","9","+","/" >>

\* table_a2b_base64: the 6-bit value of a character, 64 for any character
\* that is not of the alphabet
B64Value(c) ==
  IF \E i \in 1..64 : B64Chars[i] = c
    THEN (CHOOSE i \in 1..64 : B64Chars[i] = c) - 1
    ELSE 64

Raise(type, msg) == [ok |-> FALSE, type |-> type, msg |-> msg]

Return(value) == [ok |-> TRUE, value |-> value]

\* the decoding loop: i the next character, quad_pos the position in the
\* current group of four, leftchar the bits carried over, pads the padding
\* characters seen since the last data character
RECURSIVE a2b_base64(_, _, _, _, _, _)
a2b_base64(s, i, quad_pos, leftchar, pads, out) ==
  IF i > Len(s)
    THEN IF quad_pos = 0 THEN Return(out)
         ELSE IF quad_pos = 1
           THEN Raise("binascii.Error",
                      << "Invalid base64-encoded string: number of data characters (",
                         ToString(((Len(out) \div 3) * 4) + 1),
                         ") cannot be 1 more than a multiple of 4" >>)
           ELSE Raise("binascii.Error", << "Incorrect padding" >>)
    ELSE LET c == s[i]
             v == B64Value(c)
         IN  IF c = "="
               THEN IF quad_pos >= 2 /\ quad_pos + pads + 1 >= 4
                      THEN Return(out)
                      ELSE a2b_base64(s, i + 1, quad_pos, leftchar,
                                      IF quad_pos >= 2 THEN pads + 1 ELSE pads, out)
               ELSE IF v >= 64
                 THEN a2b_base64(s, i + 1, quad_pos, leftchar, pads, out)
                 ELSE CASE quad_pos = 0 ->
                             a2b_base64(s, i + 1, 1, v, 0, out)
                        [] quad_pos = 1 ->
                             a2b_base64(s, i + 1, 2, v % 16, 0,
                                        Append(out, (leftchar * 4) + (v \div 16)))
                        [] quad_pos = 2 ->
                             a2b_base64(s, i + 1, 3, v % 4, 0,
                                        Append(out, (leftchar * 16) + (v \div 4)))
                        [] quad_pos = 3 ->
                             a2b_base64(s, i + 1, 0, 0, 0,
                                        Append(out, (leftchar * 64) + v))

b64decode(s) == a2b_base64(s, 1, 0, 0, 0, << >>)

(***************************************************************************)
(* bytes.decode('utf-8'): strict UTF-8 decoding.  Text is the sequence of  *)
(* its code points.                                                        *)
(***************************************************************************)
HexDigits == << "0","1","2","3","4","5","6","7","8","9","a","b","c","d","e","f" >>

IsContinuation(b) == b >= 128 /\ b < 192

\* UnicodeDecodeError for the bytes b[start..end-1] (1-based start, end exclusive)
UnicodeDecodeError(b, start, end, reason) ==
  Raise("UnicodeDecodeError",
        IF end - start = 1
          THEN << "'utf-8' codec can't decode byte 0x",
                  HexDigits[(b[start] \div 16) + 1], HexDigits[(b[start] % 16) + 1],
                  " in position ", ToString(start - 1), ": ", reason >>
          ELSE << "'utf-8' codec can't decode bytes in position ",
                  ToString(start - 1), "-", ToString(end - 2), ": ", reason >>)

RECURSIVE utf8_decode(_, _, _)
utf8_decode(b, i, out) ==
  IF i > Len(b) THEN Return(out)
  ELSE LET ch == b[i]
           left == Len(b) - i + 1
           eod == "unexpected end of data"
           icb == "invalid continuation byte"
       IN
       CASE ch < 128 -> utf8_decode(b, i + 1, Append(out, ch))
         [] ch >= 128 /\ ch < 194 ->
              UnicodeDecodeError(b, i, i + 1, "invalid start byte")
         [] ch >= 194 /\ ch < 224 ->
              IF left < 2 THEN UnicodeDecodeError(b, i, i + 1, eod)
              ELSE IF ~IsContinuation(b[i+1]) THEN UnicodeDecodeError(b, i, i + 1, icb)
              ELSE utf8_decode(b, i + 2,
                               Append(out, ((ch % 32) * 64) + (b[i+1] % 64)))
         [] ch >= 224 /\ ch < 240 ->
              IF left < 2 THEN UnicodeDecodeError(b, i, i + 1, eod)
              ELSE IF \/ ~IsContinuation(b[i+1])
                      \/ (ch = 224 /\ b[i+1] < 160)
                      \/ (ch = 237 /\ b[i+1] >= 160)
                THEN UnicodeDecodeError(b, i, i + 1, icb)
              ELSE IF left < 3 THEN UnicodeDecodeError(b, i, i + 2, eod)
              ELSE IF ~IsContinuation(b[i+2]) THEN UnicodeDecodeError(b, i, i + 2, icb)
              ELSE utf8_decode(b, i + 3,
                               Append(out, ((ch % 16) * 4096) + ((b[i+1] % 64) * 64)
                                           + (b[i+2] % 64)))
         [] ch >= 240 /\ ch < 245 ->
              IF left < 2 THEN UnicodeDecodeError(b, i, i + 1, eod)
              ELSE IF \/ ~IsContinuation(b[i+1])
                      \/ (ch = 240 /\ b[i+1] < 144)
                      \/ (ch = 244 /\ b[i+1] >= 144)
                THEN UnicodeDecodeError(b, i, i + 1, icb)
              ELSE IF left < 3 THEN UnicodeDecodeError(b, i, i + 2, eod)
              ELSE IF ~IsContinuation(b[i+2]) THEN UnicodeDecodeError(b, i, i + 2, icb)
              ELSE IF left < 4 THEN UnicodeDecodeError(b, i, i + 3, eod)
              ELSE IF ~IsContinuation(b[i+3]) THEN UnicodeDecodeError(b, i, i + 3, icb)
              ELSE utf8_decode(b, i + 4,
                               Append(out, ((ch % 8) * 262144) + ((b[i+1] % 64) * 4096)
                                           + ((b[i+2] % 64) * 64) + (b[i+3] % 64)))
         [] OTHER -> UnicodeDecodeError(b, i, i + 1, "invalid start byte")

\* a decoder that swallows the base64 error and goes on with the empty text
DecodeKubeconfig_IgnoreB64Error(kubeconfig_base64) ==
  LET raw == b64decode(kubeconfig_base64)
  IN  IF raw.ok THEN utf8_decode(raw.value, 1, << >>) ELSE Return(<< >>)

\* a decoder that swallows the UTF-8 error and goes on with the empty text
DecodeKubeconfig_IgnoreUtf8Error(kubeconfig_base64) ==
  LET raw == b64decode(kubeconfig_base64)
      text == IF raw.ok THEN utf8_decode(raw.value, 1, << >>) ELSE raw
  IN  IF raw.ok /\ ~text.ok THEN Return(<< >>) ELSE text

\* base64.b64decode(request.kubeconfig_base64).decode('utf-8')
DecodeKubeconfig(kubeconfig_base64) ==
  LET raw == b64decode(kubeconfig_base64)
  IN  IF raw.ok THEN utf8_decode(raw.value, 1, << >>) ELSE raw

(***************************************************************************)
(* The cluster client library, as the handler sees it: a constructor that  *)
(* parses the kubeconfig text and list_nodes(), the one network call.      *)
(* Three kubeconfig texts name clusters; every other text is rejected by   *)
(* the constructor.                                                        *)
(***************************************************************************)
\* "a": a reachable cluster of three nodes
KubeA == << 97 >>
\* "b": a reachable cluster with no nodes
KubeB == << 98 >>
\* "ab": a well-formed kubeconfig of a cluster that does not answer
KubeAB == << 97, 98 >>

KrknKubernetes(kubeconfig_path, kubeconfig_string) ==
  IF kubeconfig_string \in {KubeA, KubeB, KubeAB}
    THEN Return([kubeconfig_path |-> kubeconfig_path,
                 kubeconfig_string |-> kubeconfig_string])
    ELSE Raise("ConfigException", << "Invalid kube-config file. ", "No configuration found." >>)

list_nodes(krkn_k8s) ==
  CASE krkn_k8s.kubeconfig_string = KubeA -> Return(<< "b", "a", "c" >>)
    [] krkn_k8s.kubeconfig_string = KubeB -> Return(<< >>)
    [] OTHER -> Raise("ApiException", << "(0) ", "Reason: ", "Connection refused" >>)

(***************************************************************************)
(* Status codes of the call context.                                       *)
(***************************************************************************)
\* the code of a context on which set_code was never called
StatusOK == "OK"
\* grpc.StatusCode.INTERNAL
StatusINTERNAL == "INTERNAL"

(***************************************************************************)
(* Credentials the clients send.                                           *)
(***************************************************************************)
Alphabet == {"Y", "Q", "/", "=", "!"}

RECURSIVE SeqsUpTo(_, _)
SeqsUpTo(S, n) ==
  IF n = 0 THEN {<< >>}
  ELSE LET shorter == SeqsUpTo(S, n - 1)
       IN  shorter \cup {Append(s, x) : s \in {t \in shorter : Len(t) = n - 1}, x \in S}

AllCredentials == SeqsUpTo(Alphabet, MaxCredLen)

SampleCredentials ==
  { << "Y","Q","=","=" >>,       \* "a"
    << "Y","g","=","=" >>,       \* "b"
    << "Y","W","I","=" >>,       \* "ab"
    << >>,                       \* the empty text
    << "/","/","=","=" >>,       \* the byte 0xff
    << "Y","Q" >>,               \* padding missing
    << "!","Y","Q","=","=" >> }  \* "a" after a character outside the alphabet

GoodCredentials == { << "Y","Q","=","=" >> }

\* the credentials of a scenario
Credentials(name) ==
  CASE name = "sample" -> SampleCredentials
    [] name = "all" -> AllCredentials
    [] name = "good" -> GoodCredentials

(***************************************************************************)
(* State.                                                                  *)
(***************************************************************************)
VARIABLES
  main,      \* where serve() is: "created", "serving", "stopping",
             \* "stopped", "exited"
  load,      \* what the clients send: [limit, creds], creds a scenario name
  sent,      \* the number of calls the server has accepted
  queue,     \* the work queue of the ThreadPoolExecutor, oldest first
  running,   \* the bag of calls whose handler a worker thread is executing
  finished   \* the bag of calls that are over

vars == << main, load, sent, queue, running, finished >>

\* A call: the request, the call context (code, details), the RPC's state
\* (active until the server aborts it), the handler's position and locals,
\* and the library calls the handler has made so far.
NewCall(kubeconfig_base64) ==
  [ kubeconfig_base64  |-> kubeconfig_base64,
    pc                 |-> "queued",
    kubeconfig_decoded |-> None,
    krkn_k8s           |-> None,
    nodes              |-> None,
    code               |-> StatusOK,
    details            |-> << >>,
    response           |-> None,
    active             |-> TRUE,
    delivered          |-> FALSE,
    calls              |-> << >> ]

One(c) == SetToBag({c})

Calls(bag) == BagToSet(bag)

QueueBag == IF queue = << >> THEN EmptyBag
            ELSE [c \in {queue[i] : i \in 1..Len(queue)} |->
                    Cardinality({i \in 1..Len(queue) : queue[i] = c})]

Init ==
  /\ main = "created"
  /\ load = [limit |-> MaxRequests, creds |-> "sample"]
  /\ sent = 0
  /\ queue = << >>
  /\ running = EmptyBag
  /\ finished = EmptyBag

InitDecode ==
  /\ main = "created"
  /\ load = [limit |-> 1, creds |-> "all"]
  /\ sent = 0
  /\ queue = << >>
  /\ running = EmptyBag
  /\ finished = EmptyBag

InitPool ==
  /\ main = "created"
  /\ load = [limit |-> max_workers + Backlog, creds |-> "good"]
  /\ sent = 0
  /\ queue = << >>
  /\ running = EmptyBag
  /\ finished = EmptyBag

(***************************************************************************)
(* serve()                                                                 *)
(***************************************************************************)
\* server.start(), then server.wait_for_termination()
ServerStart ==
  /\ main = "created"
  /\ main' = "serving"
  /\ UNCHANGED << load, sent, queue, running, finished >>

\* KeyboardInterrupt out of wait_for_termination(), and its except block:
\* server.stop(0) begins the shutdown, from which on no new call is accepted,
\* and returns without waiting
KeyboardInterrupt ==
  /\ main = "serving"
  /\ main' = "stopping"
  /\ UNCHANGED << load, sent, queue, running, finished >>

\* the RPC is aborted by the server: whatever its handler returns is dropped
Abort(c) == [c EXCEPT !.active = FALSE]

\* a stop that leaves the calls in flight alone, as under a long grace period
cancel_all_calls_None ==
  UNCHANGED << queue, running, finished >>

\* every call of the server is aborted; one still in the work queue never
\* reaches its handler
cancel_all_calls ==
  /\ queue' = << >>
  /\ running' = BagOfAll(Abort, running)
  /\ finished' = finished (+) BagOfAll(LAMBDA c : [Abort(c) EXCEPT !.pc = "aborted"],
                                       QueueBag)

\* the grace period of stop(0), none, is over: the calls in flight are aborted
GraceOver ==
  /\ main = "stopping"
  /\ main' = "stopped"
  /\ cancel_all_calls
  /\ UNCHANGED << load, sent >>

\* serve() returns; the interpreter joins the pool's threads and exits
Exit ==
  /\ main = "stopped"
  /\ running = EmptyBag
  /\ main' = "exited"
  /\ UNCHANGED << load, sent, queue, running, finished >>

(***************************************************************************)
(* The thread pool: grpc.server(futures.ThreadPoolExecutor(max_workers))   *)
(***************************************************************************)
\* a client's call, with any credential of the scenario, is accepted and
\* submitted to the pool
Submit ==
  /\ main = "serving"
  /\ sent < load.limit
  /\ \E kubeconfig_base64 \in Credentials(load.creds) :
       queue' = Append(queue, NewCall(kubeconfig_base64))
  /\ sent' = sent + 1
  /\ UNCHANGED << main, load, running, finished >>

\* a pool that starts a thread for every call
Start_NoLimit ==
  /\ queue # << >>
  /\ running' = running (+) One([Head(queue) EXCEPT !.pc = "decode"])
  /\ queue' = Tail(queue)
  /\ UNCHANGED << main, load, sent, finished >>

\* a free worker thread takes the oldest call and enters GetNodes
Start ==
  /\ queue # << >>
  /\ BagCardinality(running) < max_workers
  /\ running' = running (+) One([Head(queue) EXCEPT !.pc = "decode"])
  /\ queue' = Tail(queue)
  /\ UNCHANGED << main, load, sent, finished >>

(***************************************************************************)
(* DataProviderServicer.GetNodes, one action per statement that can raise. *)
(***************************************************************************)
\* the handler of c moves on to its next statement
Advance(c, next) ==
  /\ running' = (running (-) One(c)) (+) One(next)
  /\ UNCHANGED << main, load, sent, queue, finished >>

\* the handler of c returns: the response goes to the client unless the
\* server has aborted the call
Finish(c, last) ==
  /\ running' = running (-) One(c)
  /\ finished' = finished (+) One([last EXCEPT !.pc = "returned",
                                               !.delivered = last.active])
  /\ UNCHANGED << main, load, sent, queue >>

\* str(e)
str(e) == e.msg

\* an except block that reports a fixed message
HandleException_NoCause(c, e) ==
  [c EXCEPT !.code = StatusINTERNAL,
            !.details = << "Failed to get nodes" >>,
            !.response = Some([nodes |-> << >>])]

\* an except block that sets another status code
HandleException_Unknown(c, e) ==
  [c EXCEPT !.code = "UNKNOWN",
            !.details = << "Failed to get nodes: " >> \o str(e),
            !.response = Some([nodes |-> << >>])]

\* except Exception as e: set_code, set_details, return GetNodesResponse()
HandleException(c, e) ==
  [c EXCEPT !.code = StatusINTERNAL,
            !.details = << "Failed to get nodes: " >> \o str(e),
            !.response = Some([nodes |-> << >>])]

\* a decode failure that escapes the handler and ends the process
Decode_Fatal(c) ==
  /\ c.pc = "decode"
  /\ LET r == DecodeKubeconfig(c.kubeconfig_base64)
         called == [c EXCEPT !.calls = Append(@, "b64decode")]
     IN  IF r.ok
           THEN Advance(c, [called EXCEPT !.pc = "construct",
                                          !.kubeconfig_decoded = Some(r.value)])
           ELSE /\ running' = running (-) One(c)
                /\ finished' = finished (+) One([HandleException(called, r)
                                                   EXCEPT !.pc = "returned"])
                /\ main' = "exited"
                /\ UNCHANGED << load, sent, queue >>

\* kubeconfig_decoded = base64.b64decode(...).decode('utf-8')
Decode(c) ==
  /\ c.pc = "decode"
  /\ LET r == DecodeKubeconfig(c.kubeconfig_base64)
         called == [c EXCEPT !.calls = Append(@, "b64decode")]
     IN  IF r.ok
           THEN Advance(c, [called EXCEPT !.pc = "construct",
                                          !.kubeconfig_decoded = Some(r.value)])
           ELSE Finish(c, HandleException(called, r))

\* krkn_k8s = KrknKubernetes(kubeconfig_path="", kubeconfig_string=kubeconfig_decoded)
Construct(c) ==
  /\ c.pc = "construct"
  /\ LET r == KrknKubernetes(<< >>, c.kubeconfig_decoded[1])
         called == [c EXCEPT !.calls = Append(@, "KrknKubernetes")]
     IN  IF r.ok
           THEN Advance(c, [called EXCEPT !.pc = "list", !.krkn_k8s = Some(r.value)])
           ELSE Finish(c, HandleException(called, r))

\* a handler that keeps its client on the servicer, which all calls share:
\* the listing goes through whichever client was stored last
ListNodes_SharedClient(c) ==
  /\ c.pc = "list"
  /\ \E d \in Calls(running) :
       /\ d.krkn_k8s # None
       /\ LET r == list_nodes(d.krkn_k8s[1])
              called == [c EXCEPT !.calls = Append(@, "list_nodes")]
          IN  IF r.ok
                THEN Advance(c, [called EXCEPT !.pc = "respond", !.nodes = Some(r.value)])
                ELSE Finish(c, HandleException(called, r))

\* a handler that calls list_nodes again when it fails
ListNodes_Retry(c) ==
  /\ c.pc = "list"
  /\ LET r == list_nodes(c.krkn_k8s[1])
         called == [c EXCEPT !.calls = Append(@, "list_nodes")]
     IN  IF r.ok
           THEN Advance(c, [called EXCEPT !.pc = "respond", !.nodes = Some(r.value)])
           ELSE Advance(c, called)

\* nodes = krkn_k8s.list_nodes()
ListNodes(c) ==
  /\ c.pc = "list"
  /\ LET r == list_nodes(c.krkn_k8s[1])
         called == [c EXCEPT !.calls = Append(@, "list_nodes")]
     IN  IF r.ok
           THEN Advance(c, [called EXCEPT !.pc = "respond", !.nodes = Some(r.value)])
           ELSE Finish(c, HandleException(called, r))

Reverse(s) == [i \in 1..Len(s) |-> s[Len(s) + 1 - i]]

\* a response that does not keep the order of the listing
Respond_Reordered(c) ==
  /\ c.pc = "respond"
  /\ Finish(c, [c EXCEPT !.response = Some([nodes |-> Reverse(c.nodes[1])])])

\* response = GetNodesResponse(nodes=nodes); return response
Respond(c) ==
  /\ c.pc = "respond"
  /\ Finish(c, [c EXCEPT !.response = Some([nodes |-> c.nodes[1]])])

Next ==
  \/ ServerStart
  \/ KeyboardInterrupt
  \/ GraceOver
  \/ Exit
  \/ Submit
  \/ Start
  \/ \E c \in Calls(running) : Decode(c)
  \/ \E c \in Calls(running) : Construct(c)
  \/ \E c \in Calls(running) : ListNodes(c)
  \/ \E c \in Calls(running) : Respond(c)

\* concurrent clients, a mix of good and bad credentials
Spec == Init /\ [][Next]_vars

\* one call, every credential string up to MaxCredLen
SpecDecode == InitDecode /\ [][Next]_vars

\* more simultaneous calls than the pool has threads
SpecPool == InitPool /\ [][Next]_vars

(***************************************************************************)
(* Vocabulary of the properties.                                           *)
(***************************************************************************)
\* the calls whose handler has returned
Handled == {c \in Calls(finished) : c.pc = "returned"}

\* every call the server holds, whatever its stage
AllCalls == Calls(QueueBag) \cup Calls(running) \cup Calls(finished)

\* what decode, construction and listing yield for a credential, taken in
\* this order and stopping at the first failure
Pipeline(kubeconfig_base64) ==
  LET text == DecodeKubeconfig(kubeconfig_base64)
      client == KrknKubernetes(<< >>, text.value)
  IN  IF ~text.ok THEN text
      ELSE IF ~client.ok THEN client
      ELSE list_nodes(client.value)

Failed(c) == c.code = StatusINTERNAL /\ c.response = Some([nodes |-> << >>])

NoClusterCall(c) == c.calls = << "b64decode" >>

Contains(s, t) ==
  \E i \in 0..(Len(s) - Len(t)) : \A j \in 1..Len(t) : s[i + j] = t[j]

IsPrefix(s, t) == Len(s) <= Len(t) /\ \A i \in 1..Len(s) : s[i] = t[i]

Has(s, x) == \E i \in 1..Len(s) : s[i] = x

\* the responses that reached their clients
DeliveredCalls == {c \in Calls(finished) : c.delivered}

Deliveries == BagCardinality([c \in DeliveredCalls |-> finished[c]])

\* base64 in the strict sense: groups of four characters of the alphabet,
\* the last group padded with at most two "="
IsValidBase64(s) ==
  /\ Len(s) % 4 = 0
  /\ \A i \in 1..Len(s) :
       \/ B64Value(s[i]) < 64
       \/ /\ s[i] = "="
          /\ i > Len(s) - 2
          /\ \A j \in i..Len(s) : s[j] = "="

(***************************************************************************)
(* C1: when the credential decodes and both the construction of the client *)
(* and list_nodes succeed, the response carries exactly the sequence       *)
(* list_nodes returned, in its order, the empty one included, and no error *)
(* status is set on the context.                                           *)
(***************************************************************************)
C1_NodesAsListed ==
  \A c \in Handled :
    Pipeline(c.kubeconfig_base64).ok =>
      /\ c.response = Some([nodes |-> Pipeline(c.kubeconfig_base64).value])
      /\ c.code = StatusOK
      /\ c.details = << >>

C1_Witness ==
  /\ \E c \in Handled : c.response = Some([nodes |-> << "b", "a", "c" >>]) /\ c.delivered
  /\ \E c \in Handled :
       /\ Pipeline(c.kubeconfig_base64).ok
       /\ c.response = Some([nodes |-> << >>])
       /\ c.delivered

(***************************************************************************)
(* C2: when a step fails (decode, construction or listing) the call ends   *)
(* with status INTERNAL and an empty node list; no other status code is    *)
(* ever set, and no response carries an error status with nodes.           *)
(***************************************************************************)
C2_FailureIsInternal ==
  /\ \A c \in AllCalls : c.code \in {StatusOK, StatusINTERNAL}
  /\ \A c \in Handled :
       /\ ~Pipeline(c.kubeconfig_base64).ok => Failed(c)
       /\ c.code # StatusOK => c.response = Some([nodes |-> << >>])

C2_Witness ==
  /\ \E c \in Handled : Failed(c) /\ Len(c.calls) = 1
  /\ \E c \in Handled : Failed(c) /\ Len(c.calls) = 2
  /\ \E c \in Handled : Failed(c) /\ Len(c.calls) = 3

C4_InvalidUtf8Fails ==
  \A c \in Handled :
    LET raw == b64decode(c.kubeconfig_base64)
    IN  (raw.ok /\ ~utf8_decode(raw.value, 1, << >>).ok) =>
          Failed(c) /\ NoClusterCall(c)

C4_Witness ==
  \E c \in Handled :
    LET raw == b64decode(c.kubeconfig_base64)
    IN  raw.ok /\ ~utf8_decode(raw.value, 1, << >>).ok /\ c.delivered

(***************************************************************************)
(* C5, as the claim states it: the calls in flight at the interrupt finish *)
(* and deliver their responses before the process exits, so that at exit   *)
(* every call whose handler ran has delivered its response.                *)
(***************************************************************************)
C5_InFlightDelivered ==
  main = "exited" => \A c \in Handled : c.delivered

(***************************************************************************)
(* C5, amended: from the interrupt on the server accepts no new call, and  *)
(* it does not wait for the calls in flight: once stop(0) has aborted them *)
(* no response is delivered any more, also not by a handler that runs to   *)
(* its end.                                                                *)
(***************************************************************************)
C5_InFlightAborted ==
  [][/\ main' \in {"stopping", "stopped", "exited"} => sent' = sent
     /\ main' \in {"stopped", "exited"} =>
          /\ Deliveries' = Deliveries
          /\ queue' = << >>
          /\ \A c \in Calls(running') : ~c.active]_vars

C5_Witness ==
  /\ main = "exited"
  /\ \E c \in Handled : ~c.delivered /\ c.code = StatusOK /\ Len(c.calls) = 3

(***************************************************************************)
(* C6: under any interleaving of simultaneous calls, what a handler holds  *)
(* (decoded text, client, listing) and what it answers derive from the     *)
(* credential of its own request, never from another call's.               *)
(***************************************************************************)
C6_NoLeakage ==
  \A c \in Calls(running) \cup Handled :
    LET text == DecodeKubeconfig(c.kubeconfig_base64)
    IN  /\ c.kubeconfig_decoded # None => c.kubeconfig_decoded = Some(text.value)
        /\ c.krkn_k8s # None => c.krkn_k8s[1].kubeconfig_string = text.value
        /\ c.nodes # None => c.nodes = Some(Pipeline(c.kubeconfig_base64).value)
        /\ (c.pc = "returned" /\ c.code = StatusOK) =>
              /\ Pipeline(c.kubeconfig_base64).ok
              /\ c.response[1].nodes = Pipeline(c.kubeconfig_base64).value

C6_Witness ==
  \E c, d \in Calls(running) :
    /\ c.pc = "list" /\ d.pc = "respond"
    /\ c.krkn_k8s # d.krkn_k8s
    /\ \E e \in Handled : e.delivered /\ e.nodes # None /\ e.nodes # d.nodes

(***************************************************************************)
(* C7: a step in which a call fails changes neither the server's state nor *)
(* the work queue nor any other call in flight: only the failing call      *)
(* leaves the pool.                                                        *)
(***************************************************************************)
C7_FailureIsolated ==
  [][\A f \in Calls(finished') :
       (f.code # StatusOK /\ CopiesIn(f, finished') > CopiesIn(f, finished)) =>
         /\ main' = main
         /\ queue' = queue
         /\ sent' = sent
         /\ finished' = finished (+) One(f)
         /\ \E c \in Calls(running) :
              /\ c.kubeconfig_base64 = f.kubeconfig_base64
              /\ running' = running (-) One(c)]_vars

C7_Witness ==
  /\ main = "serving"
  /\ \E f \in Handled : Failed(f)
  /\ \E c \in Handled : c.code = StatusOK /\ c.delivered /\ c.nodes = Some(<< "b", "a", "c" >>)
  /\ \E c \in Calls(running) : c.pc = "respond"

(***************************************************************************)
(* C8: the details of a failed call contain the string form of the cause,  *)
(* so calls that failed for different causes carry different details.      *)
(***************************************************************************)
C8_DetailsCarryCause ==
  \A c \in Handled :
    c.code # StatusOK =>
      /\ ~Pipeline(c.kubeconfig_base64).ok
      /\ Contains(c.details, str(Pipeline(c.kubeconfig_base64)))
      /\ \A d \in Handled :
           (d.code # StatusOK /\ str(Pipeline(d.kubeconfig_base64))
                                   # str(Pipeline(c.kubeconfig_base64)))
             => d.details # c.details

C8_Witness ==
  \E c, d \in Handled :
    /\ c.code = StatusINTERNAL /\ d.code = StatusINTERNAL
    /\ Len(c.calls) = 1 /\ Len(d.calls) = 3
    /\ c.details # d.details

(***************************************************************************)
(* C9: at most max_workers handlers execute at any moment, and a call that *)
(* waits in the queue has not begun to execute.                            *)
(***************************************************************************)
C9_PoolBound ==
  /\ BagCardinality(running) <= max_workers
  /\ \A i \in 1..Len(queue) : queue[i].pc = "queued" /\ queue[i].calls = << >>

C9_Witness ==
  /\ BagCardinality(running) = max_workers
  /\ queue # << >>

====
